---- MODULE Spec2Model ----
(***************************************************************************)
(* Model of the scraping pipeline of JBU_Dashboard.py: fetch_webpage (the  *)
(* retry loop), the four field extractors, scrape_jbu_data (assembly and   *)
(* the used-fallback flag) and the two st.cache_data memoisations.         *)
(*                                                                         *)
(* Documents are abstracted to what each heuristic of the code finds in    *)
(* them: a heuristic's outcome is the value it would extract (empty when   *)
(* nothing plausible is found) or an exception raised while traversing.    *)
(***************************************************************************)
EXTENDS Integers, Sequences, FiniteSets, TLC

\* ------------------------------------------------------------ constants
MAX_RETRIES == 5
RETRY_DELAY == 3
TTL == 3600

\* bounds of the model
TickStep == 1800
MaxItems == 2
MaxCand == 2
MaxRetriesArg == 3

USER_AGENTS == {"Chrome/91", "Safari/14.1.1", "Firefox/89", "Chrome/92", "Googlebot/2.1"}

\* The fallback dataset.  mission and values are kept whole in meaning (one
\* string, one list); the two mappings keep two of their entries: the model
\* needs "some fallback keys extracted, others not", not all 4 and 8 keys.
FB_MISSION == "To provide Christ-centered education"
FB_VALUES == <<"Christ-centered", "Servant Leadership">>
FB_STATS == [k \in {"Total Enrollment", "Graduate Programs"} |->
                IF k = "Total Enrollment" THEN "2,343" ELSE "18"]
FB_COLLEGES == [k \in {"College of Business", "Division of Music"} |->
                IF k = "College of Business" THEN 12 ELSE 4]
FALLBACK_DATA == [mission |-> FB_MISSION, values |-> FB_VALUES,
                  stats |-> FB_STATS, colleges |-> FB_COLLEGES]

EmptyMap == << >>
NoData == [mission |-> "", values |-> << >>, stats |-> EmptyMap, colleges |-> EmptyMap]

\* What the site can serve (the inputs the model enumerates).
MissionTexts == {"Our mission is to educate"}
ValueLists == {<<"Faith", "Learning">>}
\* label/value pairs a page may show: a live value for each fallback label,
\* one that coincides with the stored fallback value ("18"), and a label the
\* fallback does not have.
StatItems == { [label |-> "Total Enrollment", value |-> "2,500"],
               [label |-> "Graduate Programs", value |-> "18"],
               [label |-> "Graduate Programs", value |-> "21"],
               [label |-> "Athletic Teams", value |-> "7"] }
\* An item of a college listing: its name, the number of nested program
\* entries (0 when there is no list) and the number in "<N> programs" of its
\* text (0 when there is no such text).
CollegeItems == { [name |-> "College of Business", listed |-> 0, texted |-> 0],
                  [name |-> "College of Business", listed |-> 12, texted |-> 0],
                  [name |-> "Division of Music", listed |-> 0, texted |-> 9] }

STATS_PAGES == <<"about", "facts", "quick-facts", "at-a-glance">>
COLLEGE_PAGES == <<"academics", "programs", "colleges", "departments">>

\* ------------------------------------------------------------ dict helpers
Has(m, k) == k \in DOMAIN m
Get(m, k, d) == IF k \in DOMAIN m THEN m[k] ELSE d
Put(m, k, v) == [x \in (DOMAIN m) \cup {k} |-> IF x = k THEN v ELSE m[x]]

SeqsUpTo(S, n) == UNION {[1..k -> S] : k \in 0..n}

\* ------------------------------------------------------------ fetch_webpage
\* One attempt of requests.get + raise_for_status: "content" (a non-empty
\* body), "empty" (a 2xx answer with an empty body), or one of the errors.
AttemptErrors == {"timeout", "http_status", "connection"}
AttemptOutcomes == {"content", "empty"} \cup AttemptErrors

\* What the bare `raise` of line 78 raises: it runs after the except clause
\* has ended, so there is no active exception to re-raise.
BareRaise == "RuntimeError"

\* A round whose delay shrinks as the attempts go on.
attempt_step_shrinking_delay(out, attempt, retries) ==
    IF out \in {"content", "empty"}
    THEN [next |-> "return", body |-> out, error |-> "", sleep |-> 0]
    ELSE IF attempt < retries - 1
    THEN [next |-> "sleep", body |-> "none", error |-> "",
          sleep |-> RETRY_DELAY * (retries - attempt)]
    ELSE [next |-> "raise", body |-> "none", error |-> BareRaise, sleep |-> 0]

\* A round that sleeps after every failed attempt, the last one included.
attempt_step_always_sleep(out, attempt, retries) ==
    IF out \in {"content", "empty"}
    THEN [next |-> "return", body |-> out, error |-> "", sleep |-> 0]
    ELSE [next |-> "sleep", body |-> "none", error |-> "",
          sleep |-> RETRY_DELAY * (attempt + 1)]

\* Lines 61-78, one round of the loop: what attempt number `attempt` (from
\* 0) does when it meets `out`.
attempt_step(out, attempt, retries) ==
    IF out \in {"content", "empty"}
    THEN [next |-> "return", body |-> out, error |-> "", sleep |-> 0]
    ELSE IF attempt < retries - 1
    THEN [next |-> "sleep", body |-> "none", error |-> "",
          sleep |-> RETRY_DELAY * (attempt + 1)]
    ELSE [next |-> "raise", body |-> "none", error |-> BareRaise, sleep |-> 0]

\* The loop of fetch_webpage over the outcomes `outs` of the attempts it
\* makes (outs[i] is what attempt i meets).  Result: status "return" with the
\* body kind, "none" (the loop made no attempt: line 80), or "raise".
RECURSIVE fetch_loop(_, _, _)
fetch_loop(outs, retries, attempt) ==
    IF attempt >= retries
    THEN [status |-> "none", body |-> "none", error |-> "", attempts |-> attempt]
    ELSE LET st == attempt_step(outs[attempt + 1], attempt, retries) IN
         IF st.next = "sleep" THEN fetch_loop(outs, retries, attempt + 1)
         ELSE [status |-> st.next, body |-> st.body, error |-> st.error,
               attempts |-> attempt + 1]

fetch_webpage(outs, retries) == fetch_loop(outs, retries, 0)

\* The scripts of attempt outcomes the scrape-level model draws from:
\* a page that answers on the third attempt, and one that never answers;
\* the primary page may also answer with an empty body.
PageScripts == { [i \in 1..MAX_RETRIES |-> IF i < 3 THEN "timeout" ELSE "content"],
                 [i \in 1..MAX_RETRIES |-> IF i < MAX_RETRIES THEN "connection"
                                           ELSE "http_status"] }
MainScripts == PageScripts \cup
               { [i \in 1..MAX_RETRIES |-> IF i < 2 THEN "http_status" ELSE "empty"] }

\* fetch_webpage behind st.cache_data(ttl=3600): a live entry for the url is
\* returned without running the function; a returned body is stored, an
\* exception is not.  cache maps a page to [body, age].
cached_fetch(cache, page, outs) ==
    IF page \in DOMAIN cache /\ cache[page].age < TTL
    THEN [res |-> cache[page].body, via |-> "cache", cache |-> cache]
    ELSE LET r == fetch_webpage(outs, MAX_RETRIES) IN
         IF r.status = "raise"
         THEN [res |-> "raise", via |-> "net", cache |-> cache]
         ELSE [res |-> r.body, via |-> "net",
               cache |-> Put(cache, page, [body |-> r.body, age |-> 0])]


\* ------------------------------------------------------------ heuristics
\* The outcome of one heuristic on one document: what it found (the field's
\* empty value when nothing plausible is there), or an exception.
Heur(found, raised) == [found |-> found, raised |-> raised]
HeurOutcomes(found, empty) ==
    {Heur(v, FALSE) : v \in found \cup {empty}} \cup {Heur(empty, TRUE)}

\* A call of fetch_webpage for a secondary page, with what the extractor had
\* when it made the call: `found` (a heuristic had already produced a result)
\* and `okBefore` (an earlier candidate page had been fetched successfully).
NoFetch == [page |-> "", via |-> "", res |-> "", found |-> FALSE, okBefore |-> FALSE]
Fetched(page, f, found, okBefore) ==
    [page |-> page, via |-> f.via, res |-> f.res, found |-> found, okBefore |-> okBefore]

\* The chain shared by extract_mission and extract_values: id/class search
\* (p1), header search (p2), then the same two on the "about" page (a1, a2)
\* inside try/except, then the fallback.  p1 and p2 run outside any try.
extract_chain(p1, p2, link, a1, a2, fallback, empty, cache, outs) ==
    LET out(st, v, ev, ft, c, ab) ==
            [status |-> st, value |-> v, evaluated |-> ev, fetch |-> ft,
             cache |-> c, absorbed |-> ab]
        P1 == <<"primary_structural">>
        P2 == <<"primary_structural", "primary_header">>
        P3 == <<"primary_structural", "primary_header", "secondary_page">>
        P4 == <<"primary_structural", "primary_header", "secondary_page", "fallback">>
    IN
    IF p1.raised THEN out("raise", empty, P1, NoFetch, cache, FALSE)
    ELSE IF p1.found # empty THEN out("return", p1.found, P1, NoFetch, cache, FALSE)
    ELSE IF p2.raised THEN out("raise", empty, P2, NoFetch, cache, FALSE)
    ELSE IF p2.found # empty THEN out("return", p2.found, P2, NoFetch, cache, FALSE)
    ELSE IF ~link THEN out("return", fallback, P4, NoFetch, cache, FALSE)
    ELSE LET f == cached_fetch(cache, "about", outs)
             ft == Fetched("about", f, p1.found # empty \/ p2.found # empty, FALSE)
         IN
         IF f.res = "raise" THEN out("return", fallback, P4, ft, f.cache, TRUE)
         ELSE IF f.res # "content" THEN out("return", fallback, P4, ft, f.cache, FALSE)
         ELSE IF a1.raised THEN out("return", fallback, P4, ft, f.cache, TRUE)
         ELSE IF a1.found # empty THEN out("return", a1.found, P3, ft, f.cache, FALSE)
         ELSE IF a2.raised THEN out("return", fallback, P4, ft, f.cache, TRUE)
         ELSE IF a2.found # empty THEN out("return", a2.found, P3, ft, f.cache, FALSE)
         ELSE out("return", fallback, P4, ft, f.cache, FALSE)

\* Method 1 without its `return`: the search goes on after a find.
extract_mission_no_return(p1, p2, link, a1, a2, fallback_value, cache, outs) ==
    LET r == extract_chain(Heur("", p1.raised), p2, link, a1, a2, fallback_value,
                           "", cache, outs)
    IN IF p1.found # "" /\ r.status = "return" /\ r.value = fallback_value
       THEN [r EXCEPT !.value = p1.found] ELSE r

extract_mission(p1, p2, link, a1, a2, fallback_value, cache, outs) ==
    extract_chain(p1, p2, link, a1, a2, fallback_value, "", cache, outs)

\* The about-page search without its try/except.
extract_values_no_try(p1, p2, link, a1, a2, fallback_values, cache, outs) ==
    LET r == extract_chain(p1, p2, link, a1, a2, fallback_values, << >>, cache, outs)
    IN IF r.absorbed THEN [r EXCEPT !.status = "raise"] ELSE r

extract_values(p1, p2, link, a1, a2, fallback_values, cache, outs) ==
    extract_chain(p1, p2, link, a1, a2, fallback_values, << >>, cache, outs)

\* ------------------------------------------------------------ state
VARIABLES
    pc,           \* position inside scrape_jbu_data ("idle": no call running)
    soup,         \* the parsed primary page: whether it links the about page
    data,         \* scrape_jbu_data's local `data`
    acc,          \* the running extractor's local dict (stats / colleges)
    idx,          \* the running extractor's position in its page list
    frame,        \* trace of the running (or last run) extractor: what its
                  \* primary heuristics have to find (doc), the heuristics it
                  \* evaluated, its last page-loop round (linked, fetch), ...
    filled,       \* fields of `data` that took at least one entry from the fallback
    exc,          \* where the exception that ended the last computation was raised
    ret,          \* the value the call returns: [result, used_fallback], or NoRet
    how,          \* the path that produced ret
    scrapeCache,  \* st.cache_data entry of scrape_jbu_data: [value, age] or NoEntry
    fetchCache,   \* st.cache_data entries of fetch_webpage: page -> [body, age]
    lastOp,       \* the last operation at the entry point
    elapsed,      \* time since ret was computed (saturates at TTL)
    cleared,      \* the caches were cleared since ret was computed
    fw            \* one call of fetch_webpage, attempt by attempt

vars == <<pc, soup, data, acc, idx, frame, filled, exc, ret, how,
          scrapeCache, fetchCache, lastOp, elapsed, cleared, fw>>
locals == <<soup, data, acc, idx, frame, filled>>

NoRet == [result |-> NoData, used_fallback |-> FALSE, set |-> FALSE]
Ret(result, uf) == [result |-> result, used_fallback |-> uf, set |-> TRUE]
NoEntry == [value |-> NoRet, age |-> 0, live |-> FALSE]
NoFrame == [field |-> "", doc |-> <<FALSE, FALSE>>, evaluated |-> << >>,
            found |-> FALSE, linked |-> FALSE, fetch |-> NoFetch,
            anyOk |-> FALSE, absorbed |-> FALSE, clash |-> FALSE]
NoSoup == [about |-> FALSE]
FwIdle == [pc |-> "idle", retries |-> 0, attempt |-> 0, headers |-> "",
           used |-> {}, made |-> 0, lastErr |-> "", sleeps |-> << >>, jitter |-> 0,
           body |-> "none", error |-> "", draws |-> 0]

Init ==
    /\ pc = "idle"
    /\ soup = NoSoup
    /\ data = NoData
    /\ acc = EmptyMap
    /\ idx = 0
    /\ frame = NoFrame
    /\ filled = {}
    /\ exc = ""
    /\ ret = NoRet
    /\ how = ""
    /\ scrapeCache = NoEntry
    /\ fetchCache = EmptyMap
    /\ lastOp = ""
    /\ elapsed = 0
    /\ cleared = FALSE
    /\ fw = FwIdle

\* ------------------------------------------------------------ the caches
Min(a, b) == IF a < b THEN a ELSE b

\* An entry that is served only until time has passed.
Live_no_ttl(entry) == entry.live /\ entry.age = 0

\* st.cache_data(ttl=3600): an entry is served while its age is below the ttl.
Live(entry) == entry.live /\ entry.age < TTL

AgedEntry(entry) ==
    IF entry.live /\ entry.age + TickStep < TTL
    THEN [entry EXCEPT !.age = entry.age + TickStep]
    ELSE NoEntry

AgedFetchCache(cache) ==
    LET keep == {p \in DOMAIN cache : cache[p].age + TickStep < TTL}
    IN [p \in keep |-> [cache[p] EXCEPT !.age = cache[p].age + TickStep]]

\* Time passes between two calls of the entry point.  (A scrape makes at most
\* 11 fetches of at most 5 attempts of 20 s plus backoff: far less than the
\* ttl, so no entry expires while a scrape runs.)
Tick ==
    /\ pc = "idle"
    /\ scrapeCache' = AgedEntry(scrapeCache)
    /\ fetchCache' = AgedFetchCache(fetchCache)
    /\ elapsed' = Min(elapsed + TickStep, TTL)
    /\ lastOp' = "tick"
    /\ UNCHANGED <<pc, locals, exc, ret, how, cleared, fw>>

\* "Force Refresh Data": st.cache_data.clear().  The button is rendered only
\* when the displayed result has using_fallback set.
ClearCache ==
    /\ pc = "idle"
    /\ ret.set /\ ret.used_fallback
    /\ scrapeCache' = NoEntry
    /\ fetchCache' = EmptyMap
    /\ cleared' = TRUE
    /\ lastOp' = "clear"
    /\ UNCHANGED <<pc, locals, exc, ret, how, elapsed, fw>>

\* ------------------------------------------------------------ scrape_jbu_data
\* A call served from the st.cache_data entry: the function body is not run.
CallHit ==
    /\ pc = "idle"
    /\ Live(scrapeCache)
    /\ ret' = scrapeCache.value
    /\ lastOp' = "hit"
    /\ UNCHANGED <<pc, locals, exc, how, scrapeCache, fetchCache, elapsed, cleared, fw>>

\* Lines 398-407: a call that runs the body: fetch of BASE_URL, the
\* `if not content` test and the parse.
ScrapeStart ==
    /\ pc = "idle"
    /\ ~Live(scrapeCache)
    /\ \E outs \in MainScripts, about \in BOOLEAN, parseRaises \in BOOLEAN :
         LET f == cached_fetch(fetchCache, "main", outs) IN
         /\ fetchCache' = f.cache
         /\ frame' = [NoFrame EXCEPT !.field = "main",
                                     !.fetch = Fetched("main", f, FALSE, FALSE)]
         /\ IF f.res = "raise"
            THEN pc' = "except" /\ exc' = "fetch" /\ ret' = NoRet /\ how' = ""
                 /\ soup' = NoSoup
            ELSE IF f.res # "content"
            THEN pc' = "return" /\ exc' = "" /\ ret' = Ret(FALLBACK_DATA, TRUE)
                 /\ how' = "nocontent" /\ soup' = NoSoup
            ELSE IF parseRaises
            THEN pc' = "except" /\ exc' = "parse" /\ ret' = NoRet /\ how' = ""
                 /\ soup' = NoSoup
            ELSE pc' = "mission" /\ exc' = "" /\ ret' = NoRet /\ how' = ""
                 /\ soup' = [about |-> about]
    /\ data' = NoData
    /\ acc' = EmptyMap
    /\ idx' = 0
    /\ filled' = {}
    /\ scrapeCache' = NoEntry
    /\ lastOp' = "miss"
    /\ elapsed' = 0
    /\ cleared' = FALSE
    /\ UNCHANGED fw

FrameOf(field, r, p1, p2, empty, link) ==
    [field |-> field, doc |-> <<p1.found # empty, p2.found # empty>>,
     evaluated |-> r.evaluated,
     found |-> r.status = "return" /\ r.evaluated[Len(r.evaluated)] # "fallback",
     linked |-> link,
     fetch |-> r.fetch, anyOk |-> r.fetch.res \in {"content", "empty"},
     absorbed |-> r.absorbed, clash |-> FALSE]

UsedFallbackStage(r) == r.evaluated[Len(r.evaluated)] = "fallback"

\* Line 410.
ExtractMission ==
    /\ pc = "mission"
    /\ \E p1 \in HeurOutcomes(MissionTexts, ""), p2 \in HeurOutcomes(MissionTexts, ""),
          a1 \in HeurOutcomes(MissionTexts, ""), a2 \in HeurOutcomes(MissionTexts, ""),
          outs \in PageScripts :
         LET r == extract_mission(p1, p2, soup.about, a1, a2, FALLBACK_DATA.mission,
                                  fetchCache, outs) IN
         /\ frame' = FrameOf("mission", r, p1, p2, "", soup.about)
         /\ fetchCache' = r.cache
         /\ IF r.status = "raise"
            THEN pc' = "except" /\ exc' = "mission" /\ UNCHANGED <<data, filled>>
            ELSE /\ pc' = "values" /\ exc' = ""
                 /\ data' = [data EXCEPT !.mission = r.value]
                 /\ filled' = IF UsedFallbackStage(r) THEN filled \cup {"mission"} ELSE filled
    /\ UNCHANGED <<soup, acc, idx, ret, how, scrapeCache, lastOp, elapsed, cleared, fw>>

\* Line 411.
ExtractValues ==
    /\ pc = "values"
    /\ \E p1 \in HeurOutcomes(ValueLists, << >>), p2 \in HeurOutcomes(ValueLists, << >>),
          a1 \in HeurOutcomes(ValueLists, << >>), a2 \in HeurOutcomes(ValueLists, << >>),
          outs \in PageScripts :
         LET r == extract_values(p1, p2, soup.about, a1, a2, FALLBACK_DATA.values,
                                 fetchCache, outs) IN
         /\ frame' = FrameOf("values", r, p1, p2, << >>, soup.about)
         /\ fetchCache' = r.cache
         /\ IF r.status = "raise"
            THEN pc' = "except" /\ exc' = "values" /\ UNCHANGED <<data, filled>>
            ELSE /\ pc' = "stats" /\ exc' = ""
                 /\ data' = [data EXCEPT !.values = r.value]
                 /\ filled' = IF UsedFallbackStage(r) THEN filled \cup {"values"} ELSE filled
    /\ UNCHANGED <<soup, acc, idx, ret, how, scrapeCache, lastOp, elapsed, cleared, fw>>

\* ------------------------------------------------------------ extract_stats
\* Lines 225-235 and 239-248: stats[label] = value for each item in turn.
RECURSIVE put_all(_, _)
put_all(stats, items) ==
    IF items = << >> THEN stats
    ELSE put_all(Put(stats, Head(items).label, Head(items).value), Tail(items))

\* Line 277 without its condition: a later page overwrites.
put_absent_overwrite(stats, items) == put_all(stats, items)

\* Lines 266-279: a secondary page adds only labels not yet in stats.
RECURSIVE put_absent(_, _)
put_absent(stats, items) ==
    IF items = << >> THEN stats
    ELSE put_absent(IF Has(stats, Head(items).label) THEN stats
                    ELSE Put(stats, Head(items).label, Head(items).value),
                    Tail(items))

\* Line 277 meets a label that stats already holds with another value.
offers_other(stats, items) ==
    \E i \in 1..Len(items) :
        Has(stats, items[i].label) /\ stats[items[i].label] # items[i].value

\* A loop that stops asking once a candidate page was fetched (`break`).
stats_page_break(stats, page, link, okBefore, items, raises, cache, outs) ==
    IF ~link \/ okBefore
    THEN [acc |-> stats, fetch |-> NoFetch, cache |-> cache, absorbed |-> FALSE,
          clash |-> FALSE]
    ELSE LET f == cached_fetch(cache, page, outs) IN
         [acc |-> IF f.res = "content" THEN put_absent(stats, items) ELSE stats,
          fetch |-> Fetched(page, f, stats # EmptyMap, okBefore),
          cache |-> f.cache,
          absorbed |-> f.res = "raise" \/ (f.res = "content" /\ raises),
          clash |-> f.res = "content" /\ offers_other(stats, items)]

\* Lines 253-281: one round of the loop over the page names.  An exception
\* inside the try (the fetch failing, or the traversal raising after `items`
\* were read) is logged and the loop goes on.
stats_page(stats, page, link, okBefore, items, raises, cache, outs) ==
    IF ~link
    THEN [acc |-> stats, fetch |-> NoFetch, cache |-> cache, absorbed |-> FALSE,
          clash |-> FALSE]
    ELSE LET f == cached_fetch(cache, page, outs) IN
         [acc |-> IF f.res = "content" THEN put_absent(stats, items) ELSE stats,
          fetch |-> Fetched(page, f, stats # EmptyMap, okBefore),
          cache |-> f.cache,
          absorbed |-> f.res = "raise" \/ (f.res = "content" /\ raises),
          clash |-> f.res = "content" /\ offers_other(stats, items)]

\* A merge that keeps only the fallback's labels.
merge_stats_fallback_keys_only(stats, fallback_stats) ==
    [k \in DOMAIN fallback_stats |-> Get(stats, k, fallback_stats[k])]

\* Lines 283-296.
merge_stats(stats, fallback_stats) ==
    [k \in (DOMAIN fallback_stats) \cup (DOMAIN stats) |->
        IF k \in DOMAIN fallback_stats THEN Get(stats, k, fallback_stats[k])
        ELSE stats[k]]

\* The links of the modelled site: of each page list, only the first MaxCand
\* names may be linked from the primary page.
Links(pages, i, about) ==
    IF pages[i] = "about" THEN {about}
    ELSE IF i <= MaxCand THEN BOOLEAN ELSE {FALSE}

\* The inputs of one round of a page loop that the round reads.
PageInputs(items, link, body) ==
    IF link /\ body = "content"
    THEN [items : SeqsUpTo(items, MaxItems), raises : BOOLEAN]
    ELSE {[items |-> << >>, raises |-> FALSE]}

\* The trace of an extractor after one round of its page loop.
PageFrame(fr, r, i, link) ==
    [fr EXCEPT !.evaluated = IF i = 1 THEN @ \o <<"secondary_page">> ELSE @,
               !.found = r.acc # EmptyMap,
               !.linked = link,
               !.fetch = r.fetch,
               !.anyOk = @ \/ r.fetch.res \in {"content", "empty"},
               !.absorbed = @ \/ r.absorbed,
               !.clash = r.clash]

\* Lines 217-235: the stats sections of the primary page (outside any try).
StatsSections ==
    /\ pc = "stats"
    /\ \E items \in SeqsUpTo(StatItems, MaxItems), raises \in BOOLEAN :
         IF raises
         THEN /\ pc' = "except" /\ exc' = "stats" /\ acc' = EmptyMap
              /\ frame' = [NoFrame EXCEPT !.field = "stats",
                                          !.evaluated = <<"primary_structural">>]
         ELSE /\ pc' = "stats_tables" /\ exc' = "" /\ acc' = put_all(EmptyMap, items)
              /\ frame' = [NoFrame EXCEPT !.field = "stats",
                                          !.doc = <<items # << >>, FALSE>>,
                                          !.evaluated = <<"primary_structural">>,
                                          !.found = items # << >>]
    /\ idx' = 0
    /\ UNCHANGED <<soup, data, filled, ret, how, scrapeCache, fetchCache, lastOp,
                   elapsed, cleared, fw>>

\* Lines 237-248: the fact tables of the primary page (outside any try).
StatsTables ==
    /\ pc = "stats_tables"
    /\ \E items \in SeqsUpTo(StatItems, MaxItems), raises \in BOOLEAN :
         IF raises
         THEN /\ pc' = "except" /\ exc' = "stats" /\ UNCHANGED <<acc, idx>>
              /\ frame' = [frame EXCEPT !.evaluated = @ \o <<"primary_header">>]
         ELSE /\ pc' = "stats_pages" /\ exc' = "" /\ acc' = put_all(acc, items)
              /\ idx' = 1
              /\ frame' = [frame EXCEPT !.doc = <<@[1], items # << >> >>,
                                        !.evaluated = @ \o <<"primary_header">>,
                                        !.found = put_all(acc, items) # EmptyMap]
    /\ UNCHANGED <<soup, data, filled, ret, how, scrapeCache, fetchCache, lastOp,
                   elapsed, cleared, fw>>

\* Lines 252-281: one page name of the loop.
StatsPage ==
    /\ pc = "stats_pages"
    /\ idx \in 1..Len(STATS_PAGES)
    /\ \E link \in Links(STATS_PAGES, idx, soup.about), outs \in PageScripts :
         \E in \in PageInputs(StatItems, link,
                              cached_fetch(fetchCache, STATS_PAGES[idx], outs).res) :
            LET r == stats_page(acc, STATS_PAGES[idx], link, frame.anyOk, in.items,
                                in.raises, fetchCache, outs) IN
            /\ acc' = r.acc
            /\ fetchCache' = r.cache
            /\ frame' = PageFrame(frame, r, idx, link)
    /\ idx' = idx + 1
    /\ pc' = IF idx = Len(STATS_PAGES) THEN "stats_merge" ELSE "stats_pages"
    /\ UNCHANGED <<soup, data, filled, exc, ret, how, scrapeCache, lastOp,
                   elapsed, cleared, fw>>

\* Lines 283-296 and the assignment of line 412.
StatsMerge ==
    /\ pc = "stats_merge"
    /\ data' = [data EXCEPT !.stats = merge_stats(acc, FALLBACK_DATA.stats)]
    /\ filled' = IF \E k \in DOMAIN FALLBACK_DATA.stats : ~Has(acc, k)
                 THEN filled \cup {"stats"} ELSE filled
    /\ frame' = [frame EXCEPT !.evaluated = @ \o <<"fallback">>]
    /\ pc' = "colleges"
    /\ UNCHANGED <<soup, acc, idx, exc, ret, how, scrapeCache, fetchCache, lastOp,
                   elapsed, cleared, fw>>

\* ------------------------------------------------------------ extract_colleges
\* Lines 316-326.
program_count(item) == IF item.listed = 0 THEN item.texted ELSE item.listed

\* Lines 310-331 and 351-370: the highest count seen for a name is kept.
RECURSIVE add_colleges(_, _)
add_colleges(colleges, items) ==
    IF items = << >> THEN colleges
    ELSE LET it == Head(items)
             n == program_count(it)
         IN add_colleges(IF ~Has(colleges, it.name) \/ n > colleges[it.name]
                         THEN Put(colleges, it.name, n) ELSE colleges,
                         Tail(items))

\* A loop whose failed fetch throws away what the field had.
colleges_page_drop_on_fail(colleges, page, link, okBefore, items, raises, cache, outs) ==
    IF ~link
    THEN [acc |-> colleges, fetch |-> NoFetch, cache |-> cache, absorbed |-> FALSE,
          clash |-> FALSE]
    ELSE LET f == cached_fetch(cache, page, outs) IN
         [acc |-> IF f.res = "content" THEN add_colleges(colleges, items) ELSE EmptyMap,
          fetch |-> Fetched(page, f, colleges # EmptyMap, okBefore),
          cache |-> f.cache,
          absorbed |-> f.res = "raise" \/ (f.res = "content" /\ raises),
          clash |-> FALSE]

\* Lines 336-373: one round of the loop over the page names.
colleges_page(colleges, page, link, okBefore, items, raises, cache, outs) ==
    IF ~link
    THEN [acc |-> colleges, fetch |-> NoFetch, cache |-> cache, absorbed |-> FALSE,
          clash |-> FALSE]
    ELSE LET f == cached_fetch(cache, page, outs) IN
         [acc |-> IF f.res = "content" THEN add_colleges(colleges, items) ELSE colleges,
          fetch |-> Fetched(page, f, colleges # EmptyMap, okBefore),
          cache |-> f.cache,
          absorbed |-> f.res = "raise" \/ (f.res = "content" /\ raises),
          clash |-> FALSE]

\* A merge that returns what was extracted, without the fallback.
merge_colleges_no_fill(colleges, fallback_colleges) == colleges

\* Lines 375-392.
merge_colleges(colleges, fallback_colleges) ==
    LET final_colleges ==
            [k \in (DOMAIN colleges) \cup (DOMAIN fallback_colleges) |->
                IF k \in DOMAIN colleges THEN colleges[k] ELSE fallback_colleges[k]]
    IN IF DOMAIN final_colleges = {} THEN fallback_colleges ELSE final_colleges

\* Lines 301-331: the academic sections of the primary page (outside any try).
CollegesPrimary ==
    /\ pc = "colleges"
    /\ \E items \in SeqsUpTo(CollegeItems, MaxItems), raises \in BOOLEAN :
         IF raises
         THEN /\ pc' = "except" /\ exc' = "colleges" /\ acc' = EmptyMap /\ idx' = 0
              /\ frame' = [NoFrame EXCEPT !.field = "colleges",
                                          !.evaluated = <<"primary_structural">>]
         ELSE /\ pc' = "colleges_pages" /\ exc' = ""
              /\ acc' = add_colleges(EmptyMap, items) /\ idx' = 1
              /\ frame' = [NoFrame EXCEPT !.field = "colleges",
                                          !.doc = <<items # << >>, FALSE>>,
                                          !.evaluated = <<"primary_structural">>,
                                          !.found = items # << >>]
    /\ UNCHANGED <<soup, data, filled, ret, how, scrapeCache, fetchCache, lastOp,
                   elapsed, cleared, fw>>

\* Lines 335-373: one page name of the loop.
CollegesPage ==
    /\ pc = "colleges_pages"
    /\ idx \in 1..Len(COLLEGE_PAGES)
    /\ \E link \in Links(COLLEGE_PAGES, idx, soup.about), outs \in PageScripts :
         \E in \in PageInputs(CollegeItems, link,
                              cached_fetch(fetchCache, COLLEGE_PAGES[idx], outs).res) :
            LET r == colleges_page(acc, COLLEGE_PAGES[idx], link, frame.anyOk, in.items,
                                   in.raises, fetchCache, outs) IN
            /\ acc' = r.acc
            /\ fetchCache' = r.cache
            /\ frame' = PageFrame(frame, r, idx, link)
    /\ idx' = idx + 1
    /\ pc' = IF idx = Len(COLLEGE_PAGES) THEN "colleges_merge" ELSE "colleges_pages"
    /\ UNCHANGED <<soup, data, filled, exc, ret, how, scrapeCache, lastOp,
                   elapsed, cleared, fw>>

\* Lines 375-392 and the assignment of line 413.
CollegesMerge ==
    /\ pc = "colleges_merge"
    /\ data' = [data EXCEPT !.colleges = merge_colleges(acc, FALLBACK_DATA.colleges)]
    /\ filled' = IF \E k \in DOMAIN FALLBACK_DATA.colleges : ~Has(acc, k)
                 THEN filled \cup {"colleges"} ELSE filled
    /\ frame' = [frame EXCEPT !.evaluated = @ \o <<"fallback">>]
    /\ pc' = "assemble"
    /\ UNCHANGED <<soup, acc, idx, exc, ret, how, scrapeCache, fetchCache, lastOp,
                   elapsed, cleared, fw>>

\* ------------------------------------------------------------ assembly
\* Lines 418-421.  dict.get of a missing key is None, which equals no value.
using_fallback(d, fb) ==
    \/ d.mission = fb.mission
    \/ d.values = fb.values
    \/ \E key \in DOMAIN fb.stats : Has(d.stats, key) /\ d.stats[key] = fb.stats[key]
    \/ \E key \in DOMAIN fb.colleges :
          Has(d.colleges, key) /\ d.colleges[key] = fb.colleges[key]

\* Lines 418-425: the return value of the normal path.
Assemble ==
    /\ pc = "assemble"
    /\ ret' = Ret(data, using_fallback(data, FALLBACK_DATA))
    /\ how' = "normal"
    /\ pc' = "return"
    /\ UNCHANGED <<locals, exc, scrapeCache, fetchCache, lastOp, elapsed, cleared, fw>>

\* A handler placed so that it misses what the extractors raise.
handler_catches_fetch_only(where) == where \in {"fetch", "parse"}

\* Line 427: `except Exception` stands after the whole body from the fetch of
\* line 402 on, so it catches whatever is raised at any of these places.
handler_catches(where) ==
    where \in {"fetch", "parse", "mission", "values", "stats", "colleges"}

\* A handler that returns what was extracted so far.
ExceptHandler_partial ==
    /\ pc = "except"
    /\ ret' = Ret(data, TRUE) /\ how' = "except" /\ pc' = "return"
    /\ UNCHANGED <<locals, exc, scrapeCache, fetchCache, lastOp, elapsed, cleared, fw>>

\* Lines 427-429: an exception raised inside the try ends here.  One that the
\* handler did not catch would leave the call (and nothing would be cached).
ExceptHandler ==
    /\ pc = "except"
    /\ IF handler_catches(exc)
       THEN ret' = Ret(FALLBACK_DATA, TRUE) /\ how' = "except" /\ pc' = "return"
       ELSE ret' = NoRet /\ how' = "raised" /\ pc' = "idle"
    /\ UNCHANGED <<locals, exc, scrapeCache, fetchCache, lastOp, elapsed, cleared, fw>>

\* A cache that does not keep the result of a failed primary fetch.
Return_forget_failure ==
    /\ pc = "return"
    /\ scrapeCache' = IF exc = "fetch" THEN NoEntry
                      ELSE [value |-> ret, age |-> 0, live |-> TRUE]
    /\ elapsed' = 0
    /\ cleared' = FALSE
    /\ soup' = NoSoup
    /\ data' = NoData
    /\ acc' = EmptyMap
    /\ idx' = 0
    /\ frame' = NoFrame
    /\ filled' = {}
    /\ pc' = "idle"
    /\ UNCHANGED <<exc, ret, how, fetchCache, lastOp, fw>>

\* The value leaves scrape_jbu_data: st.cache_data stores it and hands it to
\* the caller; the locals of the call are gone.
Return ==
    /\ pc = "return"
    /\ scrapeCache' = [value |-> ret, age |-> 0, live |-> TRUE]
    /\ elapsed' = 0
    /\ cleared' = FALSE
    /\ soup' = NoSoup
    /\ data' = NoData
    /\ acc' = EmptyMap
    /\ idx' = 0
    /\ frame' = NoFrame
    /\ filled' = {}
    /\ pc' = "idle"
    /\ UNCHANGED <<exc, ret, how, fetchCache, lastOp, fw>>

\* ------------------------------------------------------------ fetch_webpage, step by step
\* The retries argument of a call: the default, or a small explicit value.
RetryArgs == (0..MaxRetriesArg) \cup {MAX_RETRIES}
\* random.uniform(0, 1), in tenths of a second.
Jitters == {0, 9}

scrapeVars == <<pc, soup, data, acc, idx, frame, filled, exc, ret, how,
                scrapeCache, fetchCache, lastOp, elapsed, cleared>>

\* Lines 56-60: the call; the headers are chosen here, once (line 58 is the
\* only random.choice of the function: draws counts them).
FwCall ==
    /\ fw.pc = "idle"
    /\ \E retries \in RetryArgs, ua \in USER_AGENTS :
         fw' = [FwIdle EXCEPT !.pc = IF retries = 0 THEN "returned" ELSE "attempt",
                              !.retries = retries, !.headers = ua, !.draws = 1]
    /\ UNCHANGED scrapeVars

\* Lines 61-78: one attempt, up to the sleep or the end of the call.
FwAttempt ==
    /\ fw.pc = "attempt"
    /\ \E out \in AttemptOutcomes :
         LET st == attempt_step(out, fw.attempt, fw.retries) IN
         fw' = [fw EXCEPT !.pc = IF st.next = "return" THEN "returned"
                                 ELSE IF st.next = "raise" THEN "raised" ELSE "sleep",
                          !.used = @ \cup {fw.headers},
                          !.made = @ + 1,
                          !.lastErr = IF out \in AttemptErrors THEN out ELSE @,
                          !.body = st.body,
                          !.error = st.error,
                          !.sleeps = IF st.next = "sleep" THEN Append(@, st.sleep) ELSE @]
    /\ UNCHANGED scrapeVars

\* Line 75: time.sleep(sleep_time), then the next round of the loop of line
\* 60, or line 80 when the range is used up.
FwSleep ==
    /\ fw.pc = "sleep"
    /\ \E j \in Jitters :
         fw' = [fw EXCEPT !.pc = IF fw.attempt + 1 < fw.retries THEN "attempt"
                                 ELSE "returned",
                          !.attempt = @ + 1, !.jitter = j]
    /\ UNCHANGED scrapeVars

\* The call is over; the next one starts from scratch.
FwDone ==
    /\ fw.pc \in {"returned", "raised"}
    /\ fw' = FwIdle
    /\ UNCHANGED scrapeVars

FetchNext ==
    \/ FwCall
    \/ FwAttempt
    \/ FwSleep
    \/ FwDone

FetchSpec == Init /\ [][FetchNext]_vars

\* requests.get returns or raises within its timeout and time.sleep returns,
\* so a call that has started keeps taking its steps.
FetchFair == FetchSpec /\ WF_vars(FwAttempt) /\ WF_vars(FwSleep)

Next ==
    \/ Tick
    \/ ClearCache
    \/ CallHit
    \/ ScrapeStart
    \/ ExtractMission
    \/ ExtractValues
    \/ StatsSections
    \/ StatsTables
    \/ StatsPage
    \/ StatsMerge
    \/ CollegesPrimary
    \/ CollegesPage
    \/ CollegesMerge
    \/ Assemble
    \/ ExceptHandler
    \/ Return

Spec == Init /\ [][Next]_vars
\* ============================================================ properties
Extractors == {"mission", "values", "stats", "colleges"}
HeuristicOrder == <<"primary_structural", "primary_header", "secondary_page", "fallback">>
Rank(stage) == CHOOSE i \in 1..Len(HeuristicOrder) : HeuristicOrder[i] = stage
InOrder(ev) == \A i, j \in 1..Len(ev) : i < j => Rank(ev[i]) < Rank(ev[j])

Populated(result) ==
    /\ result.mission # ""
    /\ result.values # << >>
    /\ DOMAIN result.stats # {}
    /\ DOMAIN result.colleges # {}

\* A call of the entry point has been made and none is running.
CallOver == pc = "idle" /\ (how # "" \/ lastOp \in {"hit", "miss"})

\* C1: every call of scrape_jbu_data ends by returning a (result,
\* used_fallback) pair whose four fields are all populated; no exception
\* leaves the call, whatever the fetches and the extractors did.
C1_AlwaysCompleteResult ==
    /\ how # "raised"
    /\ CallOver => /\ ret.set
                   /\ Populated(ret.result)
                   /\ ret.used_fallback \in BOOLEAN

\* C1 witness: a call in which an extractor raised has returned.
C1_Witness == CallOver /\ how = "except" /\ exc \in Extractors /\ ret.set

\* C2: when the fetch of the primary page fails on all its retries, the
\* result is the fallback dataset in all four fields, used_fallback is true
\* and no extractor has run.
C2_PrimaryFailureIsFallback ==
    exc = "fetch" =>
        /\ frame.field \in {"main", ""}
        /\ data = NoData /\ filled = {}
        /\ ret.set => ret = Ret(FALLBACK_DATA, TRUE)
        /\ pc \in {"return", "idle"} => ret.set

\* C2 witness: the call whose primary fetch failed is about to return.
C2_Witness ==
    pc = "return" /\ exc = "fetch" /\ frame.fetch.page = "main"
    /\ frame.fetch.res = "raise" /\ ret.set

\* The TTL window of the last computed result is open: the result was
\* computed less than TTL ago and no cache clear happened since.
InWindow == pc = "idle" /\ ret.set /\ ~cleared /\ elapsed < TTL
CallStep == pc = "idle" /\ lastOp' \in {"hit", "miss"}

\* C3: a call made inside the TTL window of an earlier call, with no cache
\* clear in between, returns the same result as that call and neither runs
\* the scrape again nor fetches anything.
C3_CachedWithinTtl ==
    [][(InWindow /\ CallStep) =>
          /\ ret' = ret
          /\ pc' = "idle"
          /\ lastOp' = "hit"
          /\ fetchCache' = fetchCache
          /\ frame' = frame]_vars

\* C3 witness: a second call was served after time had passed inside the window.
C3_Witness == InWindow /\ lastOp = "hit" /\ elapsed > 0

\* Whether a field of the returned result is its fallback value or took
\* entries from it.
FromFallback(f) ==
    \/ ret.result[f] = FALLBACK_DATA[f]
    \/ how = "normal" /\ f \in filled

\* C4: used_fallback is true exactly when at least one of the four fields
\* equals its fallback value or was partially filled from its fallback; it is
\* false when every field was fully extracted.
C4_UsedFallbackIff ==
    pc = "return" => (ret.used_fallback <=> \E f \in Extractors : FromFallback(f))

\* C5: after the merge, every fallback label carries the extracted value if
\* it was extracted and the fallback value otherwise, and every extracted
\* label outside the fallback set is kept with its extracted value.
C5_StatsMergeLaw ==
    (pc = "colleges" /\ frame.field = "stats") =>
        /\ \A k \in DOMAIN FALLBACK_DATA.stats :
              /\ Has(data.stats, k)
              /\ data.stats[k] = IF Has(acc, k) THEN acc[k] ELSE FALLBACK_DATA.stats[k]
        /\ \A k \in (DOMAIN acc) \ (DOMAIN FALLBACK_DATA.stats) :
              Has(data.stats, k) /\ data.stats[k] = acc[k]

\* C5 witness: one fallback label extracted, one not, and an extra label.
C5_Witness ==
    /\ pc = "colleges" /\ frame.field = "stats"
    /\ Has(acc, "Total Enrollment") /\ ~Has(acc, "Graduate Programs")
    /\ Has(acc, "Athletic Teams")

\* C6: when the primary page and the secondary pages yield no college at
\* all, extract_colleges returns exactly the fallback mapping.
C6_CollegesAllOrFallback ==
    (pc = "assemble" /\ frame.field = "colleges" /\ acc = EmptyMap) =>
        data.colleges = FALLBACK_DATA.colleges

\* C6 witness: nothing extracted although a colleges page was fetched.
C6_Witness ==
    pc = "assemble" /\ frame.field = "colleges" /\ acc = EmptyMap /\ frame.anyOk

\* C7: when every attempt of a fetch failed, the call fails with the error
\* of its last attempt.
C7_RaisesLastError ==
    fw.pc = "raised" => (fw.made = fw.retries /\ fw.error = fw.lastErr)

\* C8 as claimed: in each of the four extractors no secondary page is
\* fetched once a heuristic on the primary page has produced a result.
C8_LazyInAllFour ==
    (frame.field \in Extractors /\ frame.fetch.page # "") => ~frame.fetch.found

\* C8 amended: extract_mission and extract_values evaluate their heuristics
\* in the order structural, header, about page, fallback and stop at the
\* first that finds something, so they fetch nothing when the primary page
\* suffices; extract_stats and extract_colleges evaluate every heuristic in
\* that order whatever the earlier ones found.
C8_LazyInChains ==
    /\ frame.field \in Extractors => InOrder(frame.evaluated)
    /\ frame.field \in {"mission", "values"} =>
          /\ frame.doc[1] => (frame.evaluated = SubSeq(HeuristicOrder, 1, 1)
                              /\ frame.fetch = NoFetch)
          /\ (frame.doc[2] /\ Len(frame.evaluated) >= 2) =>
                 (frame.evaluated = SubSeq(HeuristicOrder, 1, 2) /\ frame.fetch = NoFetch)
          /\ frame.fetch.page # "" => ~frame.fetch.found
          /\ (frame.found /\ pc # "except") =>
                 frame.evaluated[Len(frame.evaluated)] # "fallback"
    /\ (frame.field = "stats" /\ pc = "colleges") => frame.evaluated = HeuristicOrder
    /\ (frame.field = "colleges" /\ pc = "assemble") =>
          frame.evaluated = <<"primary_structural", "secondary_page", "fallback">>

\* C8 witness: the mission was found by the first heuristic on a primary
\* page that links the about page, and the about page was not fetched.
C8_Witness ==
    /\ pc = "values" /\ frame.field = "mission" /\ frame.doc[1] /\ soup.about
    /\ frame.fetch = NoFetch /\ data.mission \in MissionTexts

\* C9 as claimed: once a candidate page was fetched successfully, no later
\* candidate is fetched.
C9_FirstCandidateOnly ==
    (frame.field \in Extractors /\ frame.fetch.page # "") => ~frame.fetch.okBefore

PagesOf(field) == IF field = "stats" THEN STATS_PAGES ELSE COLLEGE_PAGES

\* C9 amended: an extractor walks its whole list: each candidate page that
\* the primary page links is requested, in list order, also after an earlier
\* candidate was fetched successfully.
C9_EveryLinkedCandidate ==
    (frame.field \in {"stats", "colleges"} /\ idx > 1
       /\ pc \in {"stats_pages", "stats_merge", "colleges_pages", "colleges_merge"}) =>
        /\ frame.linked <=> frame.fetch.page # ""
        /\ frame.linked => frame.fetch.page = PagesOf(frame.field)[idx - 1]

\* C9 witness: a second candidate is fetched from the network after the
\* first one was fetched successfully.
C9_Witness ==
    /\ frame.field = "stats" /\ pc = "stats_pages"
    /\ frame.fetch.page = "facts" /\ frame.fetch.via = "net" /\ frame.fetch.okBefore

\* C10 as claimed: no exception raised inside an extractor gets past it.
C10_ExtractorsAbsorb == how = "except" => exc \notin Extractors

\* C10 amended: an exception raised while an extractor works on a secondary
\* page (its fetch included) is absorbed by the extractor; one raised while it
\* traverses the primary page is not: it reaches the handler of
\* scrape_jbu_data, which returns the full fallback dataset with used_fallback
\* true.  The full fallback dataset is forced by a failed primary fetch, an
\* empty primary body, a parse error, or such an exception.
C10_PrimaryErrorsEscalate ==
    /\ pc = "except" =>
          /\ exc \in {"fetch", "parse"} \cup Extractors
          /\ exc \in Extractors =>
                /\ frame.field = exc
                /\ frame.evaluated[Len(frame.evaluated)]
                      \in {"primary_structural", "primary_header"}
                /\ frame.fetch = NoFetch /\ ~frame.absorbed
    /\ frame.absorbed => (pc # "except" /\ frame.fetch.page # "main")
    /\ (pc = "return" /\ how \in {"except", "nocontent"}) => ret = Ret(FALLBACK_DATA, TRUE)
    /\ (pc = "return" /\ how = "normal") => (exc = "" /\ ret.result = data)

\* C10 witness: the stats extractor raised on the primary page after the
\* mission had been extracted, and the call returns the fallback dataset.
C10_Witness ==
    /\ pc = "return" /\ how = "except" /\ exc = "stats"
    /\ data.mission \in MissionTexts /\ ret.result = FALLBACK_DATA
\* An extractor step in which the fetch of a secondary page failed on all
\* its retries.
SecondaryExhausted ==
    /\ pc \in {"mission", "values", "stats_pages", "colleges_pages"}
    /\ frame'.fetch.page \notin {"", "main"}
    /\ frame'.fetch.res = "raise"

\* C11: when the fetch of a secondary page fails on all retries, the
\* extractor that asked for it goes on (to its next candidate page, or to its
\* fallback), what that field had extracted and the other three fields are
\* kept, and the scrape does not go to the handler that returns the full
\* fallback dataset.
C11_SecondaryExhaustionAbsorbed ==
    [][SecondaryExhausted =>
          /\ pc' \notin {"except", "return", "idle"}
          /\ exc' = "" /\ ret' = ret /\ ~ret'.set
          /\ frame'.absorbed
          /\ pc = "mission" => /\ pc' = "values"
                               /\ data' = [data EXCEPT !.mission = FALLBACK_DATA.mission]
          /\ pc = "values" => /\ pc' = "stats"
                              /\ data' = [data EXCEPT !.values = FALLBACK_DATA.values]
          /\ pc = "stats_pages" => /\ pc' \in {"stats_pages", "stats_merge"}
                                   /\ idx' = idx + 1
                                   /\ acc' = acc /\ data' = data
          /\ pc = "colleges_pages" => /\ pc' \in {"colleges_pages", "colleges_merge"}
                                      /\ idx' = idx + 1
                                      /\ acc' = acc /\ data' = data]_vars

\* C11 witness: a colleges page failed on all retries while colleges from
\* the primary page and an extracted mission were held, and the walk goes on.
C11_Witness ==
    /\ pc = "colleges_pages" /\ frame.field = "colleges"
    /\ frame.fetch.page = "academics" /\ frame.fetch.res = "raise"
    /\ acc # EmptyMap /\ data.mission \in MissionTexts
FwOver == fw.pc \in {"returned", "raised"}

\* C12: a fetch call terminates; it makes an attempt after the first only
\* when the one before failed and attempts remain, so it makes at most
\* `retries` attempts and none after a successful one, and it does not sleep
\* after its last failed attempt.
C12_FetchTerminates ==
    /\ [](/\ fw.made <= fw.retries
          /\ (fw.pc \in {"attempt", "sleep"} /\ fw.made > 0) =>
                /\ fw.body = "none" /\ fw.lastErr \in AttemptErrors
                /\ fw.made < fw.retries
          /\ fw.pc \in {"attempt", "sleep"} => Len(fw.sleeps) = fw.made
          /\ (FwOver /\ fw.made > 0) => Len(fw.sleeps) = fw.made - 1
          /\ fw.pc = "raised" => fw.made = fw.retries
          /\ (FwOver /\ fw.body \in {"content", "empty"}) => fw.pc = "returned")
    /\ [][FwOver => (fw'.pc = "idle" /\ fw'.made = 0)]_vars
    /\ (fw.pc = "attempt") ~> FwOver

\* C12 witness: a call with three retries failed three times and slept twice.
C12_Witness ==
    fw.pc = "raised" /\ fw.retries = 3 /\ fw.made = 3 /\ Len(fw.sleeps) = 2
\* C13: within one fetch call the sleeps, jitter left out, never shrink: the
\* sleep after failed attempt number i is RETRY_DELAY * i, so for i < j the
\* sleep before attempt i+1 is at most the sleep before attempt j+1.
C13_BackoffMonotonic ==
    /\ \A i \in 1..Len(fw.sleeps) : fw.sleeps[i] = RETRY_DELAY * i
    /\ \A i, j \in 1..Len(fw.sleeps) : i < j => fw.sleeps[i] <= fw.sleeps[j]

\* C13 witness: a call that has slept three times, each time longer.
C13_Witness ==
    /\ Len(fw.sleeps) = 3
    /\ fw.sleeps[1] < fw.sleeps[2] /\ fw.sleeps[2] < fw.sleeps[3]
\* C14: within one fetch call the User-Agent is drawn from the pool once for
\* each attempt (as many draws as attempts, so that two attempts may differ),
\* and every identity used is a member of the pool.
C14_IdentityPerAttempt ==
    /\ fw.used \subseteq USER_AGENTS
    /\ fw.made > 0 => fw.draws = fw.made
\* C15: extract_stats tries its secondary pages in the order about, facts,
\* quick-facts, at-a-glance, and a page adds only labels that are not there
\* yet: a label that has a value from the primary page or from an earlier
\* page keeps it, whatever a later page holds.
C15_StatsFirstFoundWins ==
    [][pc = "stats_pages" =>
          /\ idx \in 1..Len(STATS_PAGES) /\ idx' = idx + 1
          /\ frame'.fetch.page \in {"", STATS_PAGES[idx]}
          /\ frame'.linked => frame'.fetch.page = STATS_PAGES[idx]
          /\ pc' = IF idx = Len(STATS_PAGES) THEN "stats_merge" ELSE "stats_pages"
          /\ \A k \in DOMAIN acc : Has(acc', k) /\ acc'[k] = acc[k]]_vars

\* C15 witness: the facts page, fetched after the about page, held another
\* value for a label that the extractor already had.
C15_Witness ==
    /\ frame.field = "stats" /\ frame.fetch.page = "facts"
    /\ frame.fetch.res = "content" /\ frame.fetch.okBefore /\ frame.clash
\* The last scrape that ran ended with the primary fetch failing on all its
\* retries, and its result was handed out.
TotalFailureHeld == pc = "idle" /\ exc = "fetch" /\ ret.set

\* C16: the result of a scrape whose primary fetch failed is cached like any
\* other: until the TTL has passed or the cache is cleared, every call returns
\* that fallback result with used_fallback true and fetches nothing; after
\* the TTL or a clear, the next call runs the scrape and fetches anew.
C16_TotalFailureMemoized ==
    [][(TotalFailureHeld /\ CallStep) =>
          /\ ret = Ret(FALLBACK_DATA, TRUE)
          /\ (~cleared /\ elapsed < TTL) =>
                /\ lastOp' = "hit" /\ pc' = "idle"
                /\ ret' = Ret(FALLBACK_DATA, TRUE)
                /\ fetchCache' = fetchCache /\ frame' = frame
          /\ (cleared \/ elapsed >= TTL) =>
                /\ lastOp' = "miss"
                /\ frame'.fetch.page = "main" /\ frame'.fetch.via = "net"]_vars

\* C16 witness: the fallback of a failed scrape was served from the cache
\* after time had passed.
C16_Witness ==
    /\ TotalFailureHeld /\ lastOp = "hit" /\ elapsed > 0 /\ ~cleared
    /\ ret = Ret(FALLBACK_DATA, TRUE) /\ scrapeCache.live
====
